---- MODULE Spec2Model ----
(***************************************************************************)
(* A model of andar's PathBuilder (src/andar/path_builder.py).             *)
(*                                                                         *)
(* Strings are sequences of one-character strings.  A template is a        *)
(* sequence of tokens: a literal character [k |-> "lit", v |-> c] or a     *)
(* placeholder "{name}" [k |-> "fld", v |-> name].  A regular expression   *)
(* fragment (FieldConf.pattern) is a sequence of top-level alternatives,   *)
(* each a sequence of quantified character classes; the compiled path      *)
(* pattern is matched with the priorities of a backtracking matcher        *)
(* (leftmost alternative first, lazy quantifiers shortest first).          *)
(***************************************************************************)
EXTENDS Integers, Sequences, FiniteSets, TLC

VARIABLES
    template,         \* PathBuilder.template of the builder in hand
    parent_template,  \* PathBuilder.parent_template
    fields,           \* PathBuilder.fields: name -> FieldConf
    default_field,    \* PathBuilder.default_field
    last              \* the call that has just returned: its arguments and outcome

vars == <<template, parent_template, fields, default_field, last>>

\* Longest value or input string the callers supply.
MaxLen == 4

----------------------------------------------------------------------------
(* Strings, values and dictionaries *)

NL == "\n"

\* Python's None among values that are otherwise strings.
None == [t |-> "none"]
Str(s) == [t |-> "str", s |-> s]
\* An argument that is given (and is not None).
Some(v) == [t |-> "some", v |-> v]

RECURSIVE SeqsUpTo(_, _)
SeqsUpTo(S, n) ==
    IF n = 0 THEN {<<>>}
    ELSE LET shorter == SeqsUpTo(S, n - 1)
         IN  shorter \cup {Append(w, c) : w \in {x \in shorter : Len(x) = n - 1}, c \in S}

RECURSIVE Concat(_)
Concat(ss) == IF ss = <<>> THEN <<>> ELSE Head(ss) \o Concat(Tail(ss))

Range(f) == {f[i] : i \in DOMAIN f}

\* dict(d, **{k: v})
Put(d, k, v) == [x \in (DOMAIN d) \cup {k} |-> IF x = k THEN v ELSE d[x]]

\* d1.update(d2) on a copy of d1
Overlay(d1, d2) == [x \in (DOMAIN d1) \cup (DOMAIN d2) |-> IF x \in DOMAIN d2 THEN d2[x] ELSE d1[x]]

Restrict(d, K) == [x \in (DOMAIN d) \cap K |-> d[x]]

EmptyDict == [x \in {} |-> None]

\* [x for x in xs if P(x)], order kept
RECURSIVE SelectIn(_, _)
SelectIn(xs, S) ==
    IF xs = <<>> THEN <<>>
    ELSE (IF Head(xs) \in S THEN <<Head(xs)>> ELSE <<>>) \o SelectIn(Tail(xs), S)

\* Is `part` a contiguous run of `whole` (Python's `part in whole` on strings)?
IsSubstring(part, whole) ==
    \E i \in 0..(Len(whole) - Len(part)) :
        SubSeq(whole, i + 1, i + Len(part)) = part

IsPrefix(part, whole) ==
    Len(part) <= Len(whole) /\ SubSeq(whole, 1, Len(part)) = part

\* The elements of xs in the order of their first occurrence.
RECURSIVE Uniq(_)
Uniq(xs) ==
    IF xs = <<>> THEN <<>>
    ELSE LET front == Uniq(SubSeq(xs, 1, Len(xs) - 1))
             x == xs[Len(xs)]
         IN  IF x \in Range(front) THEN front ELSE Append(front, x)

----------------------------------------------------------------------------
(* Templates *)

Lit(c) == [k |-> "lit", v |-> c]
Fld(n) == [k |-> "fld", v |-> n]

DirSep == "/"

\* string.Formatter().parse(path_template): the placeholder names in order,
\* duplicates kept.
get_template_fields_names(path_template) ==
    LET RECURSIVE names(_)
        names(t) ==
            IF t = <<>> THEN <<>>
            ELSE (IF Head(t).k = "fld" THEN <<Head(t).v>> ELSE <<>>) \o names(Tail(t))
    IN  names(path_template)

\* os.path.dirname on a template: the text before the last "/", with the
\* trailing separators stripped unless the head is made of separators only.
dirname(p) ==
    LET slashes == {i \in 1..Len(p) : p[i] = Lit(DirSep)}
        i == IF slashes = {} THEN 0 ELSE CHOOSE m \in slashes : \A n \in slashes : n <= m
        head == SubSeq(p, 1, i)
        kept == {n \in 1..i : head[n] # Lit(DirSep)}
        j == IF kept = {} THEN 0 ELSE CHOOSE m \in kept : \A n \in kept : n <= m
    IN  IF kept = {} THEN head ELSE SubSeq(head, 1, j)

\* Outcomes of a call: a returned value or a raised exception.
Ok(v) == [ok |-> TRUE, val |-> v]
Raise(exc, msg, args) == [ok |-> FALSE, exc |-> exc, msg |-> msg, args |-> args]

\* A coverage check that looks for the missing names before the invalid keys.
check_template_fields_missing_first(path_template, map_dict) ==
    LET template_fields == get_template_fields_names(path_template)
        invalid_fields == {f \in DOMAIN map_dict : f \notin Range(template_fields)}
        missing_fields == SelectIn(template_fields, Range(template_fields) \ DOMAIN map_dict)
    IN  IF missing_fields # <<>>
        THEN Raise("ValueError", "Missing fields",
                   [missing |-> missing_fields, path_template |-> path_template])
        ELSE IF invalid_fields # {}
        THEN Raise("ValueError", "Invalid fields",
                   [invalid |-> invalid_fields, path_template |-> path_template])
        ELSE Ok(None)

\* check_template_fields: the invalid keys are looked for first and raised
\* alone; the missing names are computed only when no key is invalid.
check_template_fields(path_template, map_dict) ==
    LET template_fields == get_template_fields_names(path_template)
        invalid_fields == {f \in DOMAIN map_dict : f \notin Range(template_fields)}
        missing_fields == SelectIn(template_fields, Range(template_fields) \ DOMAIN map_dict)
    IN  IF invalid_fields # {}
        THEN Raise("ValueError", "Invalid fields",
                   [invalid |-> invalid_fields, path_template |-> path_template])
        ELSE IF missing_fields # <<>>
        THEN Raise("ValueError", "Missing fields",
                   [missing |-> missing_fields, path_template |-> path_template])
        ELSE Ok(None)

\* A parent check that accepts every parent template.
check_parent_path_template_any(path_template, parent_path_template) == Ok(None)

\* check_parent_path_template: `parent_path_template not in path_template`
check_parent_path_template(path_template, parent_path_template) ==
    IF ~IsSubstring(parent_path_template, path_template)
    THEN Raise("ValueError", "parent_path_template must be a substring of path_template",
               [path_template |-> path_template, parent_path_template |-> parent_path_template])
    ELSE Ok(None)

----------------------------------------------------------------------------
(* Regular expressions (Python's re) *)

\* A quantified character class: [cs]{lo} when ~many, [cs]{lo,} when many;
\* a lazy quantifier tries the shortest repetition first.
Atom(cs, lo, many, lazy) == [cs |-> cs, lo |-> lo, many |-> many, lazy |-> lazy]

\* The end offsets a quantified class can reach from offset pos, in the order
\* the matcher tries them.
AtomEnds(atom, s, pos) ==
    LET run == {n \in 0..(Len(s) - pos) : \A i \in 1..n : s[pos + i] \in atom.cs}
        longest == CHOOSE n \in run : \A m \in run : m <= n
        hi == IF atom.many THEN longest ELSE atom.lo
        count == IF longest < atom.lo THEN 0 ELSE hi - atom.lo + 1
    IN  [i \in 1..count |-> IF atom.lazy THEN pos + atom.lo + (i - 1) ELSE pos + hi - (i - 1)]

\* The end offsets of one alternative (a sequence of atoms), in trial order.
RECURSIVE AltEnds(_, _, _)
AltEnds(alt, s, pos) ==
    IF alt = <<>> THEN <<pos>>
    ELSE LET firsts == AtomEnds(Head(alt), s, pos)
         IN  Concat([i \in 1..Len(firsts) |-> AltEnds(Tail(alt), s, firsts[i])])

\* alt1|alt2|...: the leftmost alternative is tried first.
GroupEnds(alts, s, pos) == Concat([i \in 1..Len(alts) |-> AltEnds(alts[i], s, pos)])

\* `$` matches at the end of the string and just before a final newline.
AtEnd(s, pos) == pos = Len(s) \/ (pos = Len(s) - 1 /\ s[Len(s)] = NL)

\* Elements of a compiled path pattern.
Chr(c) == [k |-> "chr", c |-> c, alts |-> <<>>]
OptChr(c) == [k |-> "opt", c |-> c, alts |-> <<>>]
AnyChr == [k |-> "any", c |-> "", alts |-> <<>>]
Group(name, alts) == [k |-> "grp", c |-> name, alts |-> alts]
EndOfString == [k |-> "end", c |-> "", alts |-> <<>>]

NoMatch == [matched |-> FALSE, groups |-> <<>>]

\* re.match("^" + elems + "$", s) from offset pos: the first match in the
\* matcher's backtracking order, with what each group captured.
RECURSIVE MatchFrom(_, _, _)
RECURSIVE FirstEnd(_, _, _, _, _)
MatchFrom(elems, s, pos) ==
    IF elems = <<>>
    THEN (IF AtEnd(s, pos) THEN [matched |-> TRUE, groups |-> <<>>] ELSE NoMatch)
    ELSE LET e == Head(elems)
             here == pos < Len(s)
         IN  CASE e.k = "chr" ->
                    IF here /\ s[pos + 1] = e.c THEN MatchFrom(Tail(elems), s, pos + 1) ELSE NoMatch
               [] e.k = "any" ->
                    IF here /\ s[pos + 1] # NL THEN MatchFrom(Tail(elems), s, pos + 1) ELSE NoMatch
               [] e.k = "opt" ->
                    LET taken == IF here /\ s[pos + 1] = e.c
                                 THEN MatchFrom(Tail(elems), s, pos + 1) ELSE NoMatch
                    IN  IF taken.matched THEN taken ELSE MatchFrom(Tail(elems), s, pos)
               [] e.k = "end" ->
                    IF AtEnd(s, pos) THEN MatchFrom(Tail(elems), s, pos) ELSE NoMatch
               [] e.k = "grp" ->
                    FirstEnd(GroupEnds(e.alts, s, pos), e.c, Tail(elems), s, pos)

FirstEnd(ends, name, rest, s, pos) ==
    IF ends = <<>> THEN NoMatch
    ELSE LET m == MatchFrom(rest, s, Head(ends))
         IN  IF m.matched
             THEN [matched |-> TRUE,
                   groups |-> <<[name |-> name, text |-> SubSeq(s, pos + 1, Head(ends))]>> \o m.groups]
             ELSE FirstEnd(Tail(ends), name, rest, s, pos)

\* re.compile rejects a pattern that defines a group name twice.
GroupNames(elems) ==
    LET grp == SelectSeq(elems, LAMBDA e : e.k = "grp")
    IN  [i \in 1..Len(grp) |-> grp[i].c]

Redefines(elems) ==
    LET names == GroupNames(elems)
    IN  \E i, j \in 1..Len(names) : i < j /\ names[i] = names[j]

\* match.groupdict()
groupdict(m) == [n \in {m.groups[i].name : i \in 1..Len(m.groups)} |->
                    LET i == CHOOSE i \in 1..Len(m.groups) : m.groups[i].name = n
                    IN  m.groups[i].text]

\* re.match("^" + pattern + "$", s) where pattern is a field's fragment: the
\* anchors bind to the first and the last top-level alternative only.
MatchExact(alts, s) ==
    \E i \in 1..Len(alts) :
        LET ends == AltEnds(alts[i], s, 0)
        IN  \E j \in 1..Len(ends) : i = Len(alts) => AtEnd(s, ends[j])

\* re.match("^" + pattern + "|$", s): the fragment's alternatives lose the end
\* anchor, and the empty string is accepted.
MatchExactOrEmpty(alts, s) ==
    \/ \E i \in 1..Len(alts) : AltEnds(alts[i], s, 0) # <<>>
    \/ AtEnd(s, 0)

----------------------------------------------------------------------------
(* SafePatterns and FieldConf *)

\* The characters of a-zA-Z0-9 that occur in the strings of this model.
Digits == {"0", "1", "2", "3", "4", "5", "6", "7", "8", "9"}
AlphaNum == {"x", "y", "n", "o", "e", "X", "Y", "N", "O", "E"} \cup Digits

\* [-_.a-zA-Z0-9]+?
FILENAME == <<<<Atom({"-", "_", "."} \cup AlphaNum, 1, TRUE, TRUE)>>>>
\* [-_.a-zA-Z0-9/]+?
DIRPATH == <<<<Atom({"-", "_", ".", "/"} \cup AlphaNum, 1, TRUE, TRUE)>>>>
\* [a-zA-Z0-9]+?
FIELD == <<<<Atom(AlphaNum, 1, TRUE, TRUE)>>>>

NoConverter == "None"

FieldConf(pattern, is_optional) ==
    [pattern |-> pattern, date_format |-> NoConverter, datetime_format |-> NoConverter,
     is_optional |-> is_optional, str_to_var |-> NoConverter, var_to_str |-> NoConverter]

\* FieldConf(): the dataclass defaults
DefaultFieldConf == FieldConf(FILENAME, FALSE)

\* A __post_init__ that accepts any number of converters.
__post_init__unchecked(conf) == Ok(conf)

\* FieldConf.__post_init__: date format, datetime format and custom converter
\* (var_to_str or str_to_var, or both) are counted, and more than one raises.
__post_init__(conf) ==
    LET has_date_converter == conf.date_format # NoConverter
        has_datetime_converter == conf.datetime_format # NoConverter
        has_custom_converter == conf.var_to_str # NoConverter \/ conf.str_to_var # NoConverter
        flags == <<has_date_converter, has_datetime_converter, has_custom_converter>>
        active_converters_num == Cardinality({i \in 1..3 : flags[i]})
    IN  IF active_converters_num > 1
        THEN Raise("ValueError", "Maximum one field converter is allowed",
                   [found |-> active_converters_num])
        ELSE Ok(conf)

\* FieldConf(**kwargs): the dataclass's generated __init__ assigns every
\* attribute, the default where no argument is given, and runs __post_init__.
FieldConf_init(kwargs) == __post_init__(Overlay(DefaultFieldConf, kwargs))

\* FieldConf.replace(**kwargs): dataclasses.replace builds a new object from
\* the attributes of self with the given ones replaced, through __init__.
FieldConf_replace(conf, kwargs) == FieldConf_init(Overlay(conf, kwargs))

----------------------------------------------------------------------------
(* Values and their conversions: str(), strftime, strptime, custom functions *)

\* datetime.date(1900, 1, day) and datetime.datetime(1900, 1, day, 0, 0): the
\* dates a "%d" format can tell apart.
Date(day) == [t |-> "date", day |-> day]
DateTime(day) == [t |-> "datetime", day |-> day]

TwoDigits(n) == <<ToString(n \div 10), ToString(n % 10)>>

\* str(field_value)
str(field_value) ==
    CASE field_value.t = "none" -> <<"N", "o", "n", "e">>
      [] field_value.t = "str" -> field_value.s
      [] field_value.t = "date" ->
            <<"1", "9", "0", "0", "-", "0", "1", "-">> \o TwoDigits(field_value.day)
      [] field_value.t = "datetime" ->
            <<"1", "9", "0", "0", "-", "0", "1", "-">> \o TwoDigits(field_value.day)
                \o <<" ", "0", "0", ":", "0", "0", ":", "0", "0">>

\* field_value.strftime("%d"): the day of the month on two digits; a value that
\* is no date has no such method.
strftime(field_value, format) ==
    IF field_value.t \in {"date", "datetime"}
    THEN Ok(TwoDigits(field_value.day))
    ELSE Raise("AttributeError", "object has no attribute 'strftime'", [type |-> field_value.t])

\* dt.datetime.strptime(data_string, "%d"): the whole string must be a day of
\* the month, 1 to 31, on one or two digits (or a space and a digit).
strptime(data_string, format) ==
    LET n == Len(data_string)
        digit(i) == data_string[i] \in Digits
        val(i) == CHOOSE k \in 0..9 : ToString(k) = data_string[i]
        one == n = 1 /\ digit(1) /\ val(1) >= 1
        two == n = 2 /\ digit(1) /\ digit(2) /\ (10 * val(1) + val(2)) \in 1..31
        padded == n = 2 /\ data_string[1] = " " /\ digit(2) /\ val(2) >= 1
    IN  IF one THEN Ok(DateTime(val(1)))
        ELSE IF two THEN Ok(DateTime(10 * val(1) + val(2)))
        ELSE IF padded THEN Ok(DateTime(val(2)))
        ELSE Raise("ValueError", "time data does not match format",
                   [data_string |-> data_string, format |-> format])

Upper(c) ==
    CASE c = "x" -> "X" [] c = "y" -> "Y" [] c = "n" -> "N" [] c = "o" -> "O" [] c = "e" -> "E"
      [] OTHER -> c
Lower(c) ==
    CASE c = "X" -> "x" [] c = "Y" -> "y" [] c = "N" -> "n" [] c = "O" -> "o" [] c = "E" -> "e"
      [] OTHER -> c

\* function(field_value) for the functions str.upper and str.lower, which
\* take a string only.
Apply(function, field_value) ==
    IF field_value.t # "str"
    THEN Raise("TypeError", "descriptor requires a 'str' object", [type |-> field_value.t])
    ELSE IF function = "str.upper"
    THEN Ok(Str([i \in 1..Len(field_value.s) |-> Upper(field_value.s[i])]))
    ELSE Ok(Str([i \in 1..Len(field_value.s) |-> Lower(field_value.s[i])]))

----------------------------------------------------------------------------
(* PathBuilder: construction, replace, update, __call__ *)

Builder(t, p, f, d) == [template |-> t, parent_template |-> p, fields |-> f, default_field |-> d]

\* A constructor that does not run the coverage check on the registry.
PathBuilder_unchecked(template_, parent_template_, fields_, default_field_) ==
    LET parent == IF parent_template_ = None THEN dirname(template_) ELSE parent_template_.v
        chk_parent == check_parent_path_template(template_, parent)
        default == IF default_field_ = None THEN DefaultFieldConf ELSE default_field_.v
        names == Range(get_template_fields_names(template_))
        defaults == [n \in names |-> default]
        new_fields == IF fields_ = None THEN defaults ELSE Overlay(defaults, fields_.v)
    IN  IF ~chk_parent.ok THEN chk_parent
        ELSE Ok(Builder(template_, parent, new_fields, default))

\* PathBuilder.__init__; an argument is None or Some(value).
PathBuilder(template_, parent_template_, fields_, default_field_) ==
    LET parent == IF parent_template_ = None THEN dirname(template_) ELSE parent_template_.v
        chk_parent == check_parent_path_template(template_, parent)
        default == IF default_field_ = None THEN DefaultFieldConf ELSE default_field_.v
        names == Range(get_template_fields_names(template_))
        defaults == [n \in names |-> default]
        new_fields == IF fields_ = None THEN defaults ELSE Overlay(defaults, fields_.v)
        chk_fields == check_template_fields(template_, new_fields)
    IN  IF ~chk_parent.ok THEN chk_parent
        ELSE IF ~chk_fields.ok THEN chk_fields
        ELSE Ok(Builder(template_, parent, new_fields, default))

Kw(kwargs, name, otherwise) == IF name \in DOMAIN kwargs THEN kwargs[name] ELSE otherwise

\* PathBuilder.replace: the arguments not given come from self, except that a
\* new template without a parent template gets its own directory as parent.
replace(self, kwargs) ==
    LET default_parent_template ==
            IF "template" \notin DOMAIN kwargs THEN Some(self.parent_template) ELSE None
    IN  PathBuilder(Kw(kwargs, "template", Some(self.template)).v,
                    Kw(kwargs, "parent_template", default_parent_template),
                    Kw(kwargs, "fields", Some(self.fields)),
                    Kw(kwargs, "default_field", Some(self.default_field)))

\* An update that leaves the names set to None in the fields it passes on.
update_keeps_none(self, kwargs) ==
    IF "fields" \notin DOMAIN kwargs THEN replace(self, kwargs)
    ELSE IF kwargs["fields"] = None
    THEN Raise("TypeError", "'NoneType' object is not iterable", <<>>)
    ELSE replace(self, Put(kwargs, "fields", Some(Overlay(self.fields, kwargs["fields"].v))))

\* PathBuilder.update: the given fields are laid over a copy of self.fields and
\* the names set to None are dropped before replace.
update(self, kwargs) ==
    IF "fields" \notin DOMAIN kwargs THEN replace(self, kwargs)
    ELSE IF kwargs["fields"] = None
    THEN Raise("TypeError", "'NoneType' object is not iterable", <<>>)
    ELSE LET laid == Overlay(self.fields, kwargs["fields"].v)
             kept == Restrict(laid, {n \in DOMAIN laid : laid[n] # None})
         IN  replace(self, Put(kwargs, "fields", Some(kept)))

\* PathBuilder.__call__
call(self, kwargs) == IF DOMAIN kwargs = {} THEN Ok(self) ELSE replace(self, kwargs)

\* An update that lays the given fields over self.fields itself.
update_writes_in_place(self, kwargs) ==
    LET given == "fields" \in DOMAIN kwargs /\ kwargs["fields"] # None
        laid == Overlay(self.fields, kwargs["fields"].v)
        kept == Restrict(laid, {n \in DOMAIN laid : laid[n] # None})
    IN  [self_fields |-> IF given THEN kept ELSE self.fields,
         fields |-> IF given THEN kept ELSE self.fields]

\* What the statements of update write to (lines 140-145): `fields` is a copy
\* of self.fields; the given fields are laid over the copy and the names set
\* to None are popped from the copy, while self.fields is only read.
update_writes(self, kwargs) ==
    LET given == "fields" \in DOMAIN kwargs /\ kwargs["fields"] # None
        laid == Overlay(self.fields, kwargs["fields"].v)
        kept == Restrict(laid, {n \in DOMAIN laid : laid[n] # None})
    IN  [self_fields |-> self.fields,
         fields |-> IF given THEN kept ELSE self.fields]

\* The objects a returned builder is made of, as seen from the builder the call
\* was made on: the instance is self or a new one, and its registry is the
\* dictionary self.fields, the dictionary passed as `fields`, or a new one.
\* __init__ (lines 98-105) binds the registry to new_fields, a dictionary it
\* creates and fills from the defaults and from `fields`, which it only reads.
PathBuilder_made(fields_passed) == [instance |-> "new", fields |-> "new_fields"]

\* replace passes self.fields itself when no fields are given (line 126), and
\* returns what the constructor makes (line 130).
replace_made(self, kwargs) ==
    PathBuilder_made(IF "fields" \in DOMAIN kwargs THEN "kwargs.fields" ELSE "self.fields")

\* update passes its copy of self.fields when fields are given (line 145).
update_made(self, kwargs) ==
    replace_made(self, IF "fields" \in DOMAIN kwargs
                       THEN Put(kwargs, "fields", Some(update_writes(self, kwargs).fields))
                       ELSE kwargs)

\* __call__ returns self when it is given nothing (lines 149-150).
call_made(self, kwargs) ==
    IF DOMAIN kwargs = {} THEN [instance |-> "self", fields |-> "self.fields"]
    ELSE replace_made(self, kwargs)

----------------------------------------------------------------------------
(* Parsing *)

\* assign_groupname_pattern_dict: "(?P<field>pattern)" for every entry
assign_groupname_pattern_dict(pattern_dict) ==
    [field \in DOMAIN pattern_dict |-> Group(field, pattern_dict[field])]

\* The element a literal character of the template text stands for in the
\* pattern: "\." is a dot, "/?" an optional separator, a bare "." any character
\* and a bare "$" the end of the string.
LitElem(v) ==
    IF v = "\\." THEN Chr(".")
    ELSE IF v = "/?" THEN OptChr(DirSep)
    ELSE IF v = "." THEN AnyChr
    ELSE IF v = "$" THEN EndOfString
    ELSE Chr(v)

\* template.format(**named_pattern_dict)
FormatPattern(tpl, named_pattern_dict) ==
    [i \in 1..Len(tpl) |->
        IF tpl[i].k = "fld" THEN named_pattern_dict[tpl[i].v] ELSE LitElem(tpl[i].v)]

\* str.replace("{old}", "{new}", 1)
ReplaceFirst(tpl, old, new) ==
    LET at == {i \in 1..Len(tpl) : tpl[i] = Fld(old)}
        first == CHOOSE i \in at : \A j \in at : i <= j
    IN  IF at = {} THEN tpl ELSE [tpl EXCEPT ![first] = Fld(new)]

Count(xs, x) == Cardinality({i \in 1..Len(xs) : xs[i] = x})

\* field_name + f"__{idx}"
DedupName(field_name, idx) == field_name \o "__" \o ToString(idx)

\* The deduplication loop of parse_fields over unique_fields in the order
\* `order` (the iteration order of a set, which the program does not fix).
RECURSIVE Deduplicate(_, _, _, _)
Deduplicate(order, template_fields, pattern_dict, acc) ==
    IF order = <<>> THEN acc
    ELSE LET field_name == Head(order)
             field_count == Count(template_fields, field_name)
             RECURSIVE rename(_, _)
             rename(idx, a) ==
                 IF idx = field_count THEN a
                 ELSE LET new_field_name == DedupName(field_name, idx)
                      IN  rename(idx + 1,
                                 [pd |-> Put(a.pd, new_field_name, pattern_dict[field_name]),
                                  tpl |-> ReplaceFirst(a.tpl, field_name, new_field_name),
                                  dd |-> a.dd])
             renamed == rename(0, acc)
             deduplicated_list == [idx \in 1..field_count |-> DedupName(field_name, idx - 1)]
             next == IF field_count = 1
                     THEN [acc EXCEPT !.pd = Put(acc.pd, field_name, pattern_dict[field_name])]
                     ELSE [renamed EXCEPT
                             !.dd = Append(renamed.dd, [name |-> field_name, list |-> deduplicated_list])]
         IN  Deduplicate(Tail(order), template_fields, pattern_dict, next)

\* The fusion loop of parse_fields: every repeated field must have captured one
\* value; its synthetic entries are replaced by one entry under its own name.
RECURSIVE Fusion(_, _)
Fusion(dd, parsed) ==
    IF dd = <<>> THEN Ok(parsed)
    ELSE LET original_field_name == Head(dd).name
             deduplicated_list == Head(dd).list
             absent == {i \in 1..Len(deduplicated_list) : deduplicated_list[i] \notin DOMAIN parsed}
             parsed_field_values == [i \in 1..Len(deduplicated_list) |-> parsed[deduplicated_list[i]]]
             popped == Restrict(parsed, (DOMAIN parsed) \ Range(deduplicated_list))
         IN  IF absent # {} THEN Raise("KeyError", "pop", <<>>)
             ELSE IF Cardinality(Range(parsed_field_values)) # 1
             THEN Raise("ValueError", "More than one value was found for repeated field",
                        [field |-> original_field_name, values |-> parsed_field_values])
             ELSE Fusion(Tail(dd), Put(popped, original_field_name, parsed_field_values[1]))

\* The deduplicated template and patterns parse_fields works on, the full
\* pattern string "^...$" it builds from them, and the repeated fields to fuse.
\* `order` is the iteration order of set(template_fields).
ParsePlan(tpl, pattern_dict, order) ==
    LET template_fields == get_template_fields_names(tpl)
        dedup == Deduplicate(order, template_fields, pattern_dict,
                             [pd |-> EmptyDict, tpl |-> tpl, dd |-> <<>>])
        has_duplicates == pattern_dict # dedup.pd
        used_dict == IF has_duplicates THEN dedup.pd ELSE pattern_dict
        used_template == IF has_duplicates THEN dedup.tpl ELSE tpl
        named_pattern_dict == assign_groupname_pattern_dict(used_dict)
    IN  [path_pattern |-> FormatPattern(used_template, named_pattern_dict), dd |-> dedup.dd]

\* A parse that returns None on a mismatch whatever raise_error is.
parse_fields_lenient(string, tpl, pattern_dict, raise_error, order) ==
    LET chk == check_template_fields(tpl, pattern_dict)
        plan == ParsePlan(tpl, pattern_dict, order)
        path_pattern == plan.path_pattern
        match == MatchFrom(path_pattern, string, 0)
    IN  IF ~chk.ok THEN chk
        ELSE IF Redefines(path_pattern)
        THEN Raise("re.error", "redefinition of group name", [pattern |-> path_pattern])
        ELSE IF ~match.matched THEN Ok(None)
        ELSE Fusion(plan.dd, groupdict(match))

\* parse_fields(_string, template, pattern_dict, raise_error)
parse_fields(string, tpl, pattern_dict, raise_error, order) ==
    LET chk == check_template_fields(tpl, pattern_dict)
        plan == ParsePlan(tpl, pattern_dict, order)
        path_pattern == plan.path_pattern
        match == MatchFrom(path_pattern, string, 0)
    IN  IF ~chk.ok THEN chk
        ELSE IF Redefines(path_pattern)
        THEN Raise("re.error", "redefinition of group name", [pattern |-> path_pattern])
        ELSE IF ~match.matched
        THEN (IF raise_error
              THEN Raise("ValueError", "Invalid string", [string |-> string, pattern |-> path_pattern])
              ELSE Ok(None))
        ELSE Fusion(plan.dd, groupdict(match))

\* path_template.replace(".", "\.")
EscapeDots(tpl) ==
    [i \in 1..Len(tpl) |-> IF tpl[i] = Lit(".") THEN Lit("\\.") ELSE tpl[i]]

\* path_template.replace("{f}/{", "{f}/?{") for every optional field f: the
\* separator between an optional placeholder and the next placeholder becomes
\* optional.
OptionalSeparators(tpl, fields_conf) ==
    [i \in 1..Len(tpl) |->
        IF /\ tpl[i] = Lit(DirSep)
           /\ i > 1 /\ i < Len(tpl)
           /\ tpl[i - 1].k = "fld" /\ tpl[i + 1].k = "fld"
           /\ tpl[i - 1].v \in DOMAIN fields_conf
           /\ fields_conf[tpl[i - 1].v].is_optional
        THEN Lit("/?") ELSE tpl[i]]

\* A field pattern that gets no empty alternative when the field is optional.
FieldPattern_required(field_conf) == field_conf.pattern

\* field_pattern of parse_file_path: f"{field_pattern}|" for an optional field
FieldPattern(field_conf) ==
    IF field_conf.is_optional THEN Append(field_conf.pattern, <<>>) ELSE field_conf.pattern

\* The conversion of process_parsed_fields_values: strptime with the date
\* format (and .date()), else with the datetime format, else str_to_var, else
\* str(field_value).
Decode(field_conf, field_value) ==
    IF field_conf.date_format # NoConverter
    THEN LET parsed == strptime(field_value, field_conf.date_format)
         IN  IF parsed.ok THEN Ok(Date(parsed.val.day)) ELSE parsed
    ELSE IF field_conf.datetime_format # NoConverter
    THEN strptime(field_value, field_conf.datetime_format)
    ELSE IF field_conf.str_to_var # NoConverter
    THEN Apply(field_conf.str_to_var, Str(field_value))
    ELSE Ok(Str(field_value))

\* process_parsed_fields_values: called with whatever parse_fields returned,
\* None included.  The fields are processed in the key order `keys` of the
\* dictionary, and the first one that is unknown, does not match its pattern or
\* cannot be converted raises.
process_parsed_fields_values(self, parsed_fields, keys) ==
    IF parsed_fields = None
    THEN Raise("AttributeError", "'NoneType' object has no attribute 'copy'", <<>>)
    ELSE LET valid(n) == IF self.fields[n].is_optional
                         THEN MatchExactOrEmpty(self.fields[n].pattern, parsed_fields[n])
                         ELSE MatchExact(self.fields[n].pattern, parsed_fields[n])
             processed(n) ==
                 IF n \notin DOMAIN self.fields
                 THEN Raise("ValueError", "Unknown field", [field |-> n])
                 ELSE IF ~valid(n)
                 THEN Raise("ValueError", "Invalid field",
                            [field |-> n, value |-> parsed_fields[n],
                             pattern |-> self.fields[n].pattern])
                 ELSE Decode(self.fields[n], parsed_fields[n])
             value(n) == LET new_field_value == processed(n).val
                         IN  IF new_field_value = Str(<<>>) /\ self.fields[n].is_optional
                             THEN None ELSE new_field_value
             failing == {i \in 1..Len(keys) : ~processed(keys[i]).ok}
         IN  IF failing # {}
             THEN processed(keys[CHOOSE i \in failing : \A j \in failing : i <= j])
             ELSE Ok([n \in DOMAIN parsed_fields |-> value(n)])

\* The template and the pattern dictionary parse_file_path hands to parse_fields.
ParseTemplate(self) == OptionalSeparators(EscapeDots(self.template), self.fields)
ParsePatterns(self) == [n \in DOMAIN self.fields |-> FieldPattern(self.fields[n])]

\* The key order of the dictionary parse_fields returns: groupdict's, which is
\* the order of the groups in the pattern, where the fusion loop has popped the
\* synthetic names of every repeated field and set the field's own name.
RECURSIVE FusedKeys(_, _)
FusedKeys(keys, dd) ==
    IF dd = <<>> THEN keys
    ELSE LET popped == SelectSeq(keys, LAMBDA k : k \notin Range(Head(dd).list))
             set == IF Head(dd).name \in Range(popped) THEN popped
                    ELSE Append(popped, Head(dd).name)
         IN  FusedKeys(set, Tail(dd))

ParsedKeys(tpl, pattern_dict, order) ==
    LET plan == ParsePlan(tpl, pattern_dict, order)
    IN  FusedKeys(GroupNames(plan.path_pattern), plan.dd)

\* parse_file_path(file_path, raise_error)
parse_file_path(self, file_path, raise_error, order) ==
    LET parsed_fields == parse_fields(file_path, ParseTemplate(self), ParsePatterns(self),
                                      raise_error, order)
    IN  IF ~parsed_fields.ok THEN parsed_fields
        ELSE process_parsed_fields_values(self, parsed_fields.val,
                                          ParsedKeys(ParseTemplate(self), ParsePatterns(self), order))

----------------------------------------------------------------------------
(* Path assembly *)

\* path.split("/")
RECURSIVE Split(_)
Split(s) ==
    LET at == {i \in 1..Len(s) : s[i] = DirSep}
        first == CHOOSE i \in at : \A j \in at : i <= j
    IN  IF at = {} THEN <<s>>
        ELSE <<SubSeq(s, 1, first - 1)>> \o Split(SubSeq(s, first + 1, Len(s)))

\* "/".join(comps)
RECURSIVE Join(_)
Join(comps) ==
    IF comps = <<>> THEN <<>>
    ELSE IF Len(comps) = 1 THEN comps[1]
    ELSE comps[1] \o <<DirSep>> \o Join(Tail(comps))

\* A component loop without a stack: a ".." is resolved only against the
\* component written right before it in the input.
RECURSIVE NormComps_one_pass(_, _, _)
NormComps_one_pass(comps, new_comps, initial_slashes) ==
    IF comps = <<>> THEN new_comps
    ELSE IF /\ Len(comps) >= 2
            /\ comps[2] = <<".", ".">>
            /\ comps[1] \notin {<<>>, <<".">>, <<".", ".">>}
    THEN NormComps_one_pass(Tail(Tail(comps)), new_comps, initial_slashes)
    ELSE IF Head(comps) = <<>> \/ Head(comps) = <<".">>
    THEN NormComps_one_pass(Tail(comps), new_comps, initial_slashes)
    ELSE NormComps_one_pass(Tail(comps), Append(new_comps, Head(comps)), initial_slashes)

\* The component loop of posixpath.normpath: empty and "." components are
\* dropped, ".." removes the component before it unless there is none to
\* remove (a relative path keeps it) or the one before is ".." too.
RECURSIVE NormComps(_, _, _)
NormComps(comps, new_comps, initial_slashes) ==
    IF comps = <<>> THEN new_comps
    ELSE LET comp == Head(comps)
             n == Len(new_comps)
             next ==
                 IF comp = <<>> \/ comp = <<".">> THEN new_comps
                 ELSE IF \/ comp # <<".", ".">>
                         \/ (initial_slashes = 0 /\ n = 0)
                         \/ (n > 0 /\ new_comps[n] = <<".", ".">>)
                 THEN Append(new_comps, comp)
                 ELSE IF n > 0 THEN SubSeq(new_comps, 1, n - 1)
                 ELSE new_comps
         IN  NormComps(Tail(comps), next, initial_slashes)

\* os.path.normpath (posixpath)
normpath(path) ==
    LET starts(k) == Len(path) >= k /\ \A i \in 1..k : path[i] = DirSep
        initial_slashes == IF ~starts(1) THEN 0
                           ELSE IF starts(2) /\ ~starts(3) THEN 2 ELSE 1
        joined == Join(NormComps(Split(path), <<>>, initial_slashes))
        result == [i \in 1..initial_slashes |-> DirSep] \o joined
    IN  IF path = <<>> \/ result = <<>> THEN <<".">> ELSE result

\* The conversion of prepare_fields_values: strftime with the date format, else
\* with the datetime format, else var_to_str, else str(field_value).
Encode(field_conf, field_value) ==
    IF field_conf.date_format # NoConverter
    THEN strftime(field_value, field_conf.date_format)
    ELSE IF field_conf.datetime_format # NoConverter
    THEN strftime(field_value, field_conf.datetime_format)
    ELSE IF field_conf.var_to_str # NoConverter
    THEN LET said == Apply(field_conf.var_to_str, field_value)
         IN  IF said.ok THEN Ok(said.val.s) ELSE said
    ELSE Ok(str(field_value))

\* A preparation that renders None as the text "None" for an optional field too.
prepare_fields_values_none_as_text(fields_values_dict, fields_conf, keys) ==
    LET known == (DOMAIN fields_values_dict) \cap (DOMAIN fields_conf)
        prepared(n) ==
            IF n \notin known THEN Ok(<<>>)
            ELSE LET new_field_value == Encode(fields_conf[n], fields_values_dict[n])
                 IN  IF ~new_field_value.ok THEN new_field_value
                     ELSE IF ~MatchExact(fields_conf[n].pattern, new_field_value.val)
                     THEN Raise("ValueError", "Invalid field",
                                [field |-> n, value |-> new_field_value.val,
                                 pattern |-> fields_conf[n].pattern])
                     ELSE new_field_value
        failing == {i \in 1..Len(keys) : ~prepared(keys[i]).ok}
    IN  IF failing # {}
        THEN prepared(keys[CHOOSE i \in failing : \A j \in failing : i <= j])
        ELSE Ok([n \in known |-> prepared(n).val])

\* prepare_fields_values: the values are taken in the key order `keys` of the
\* dictionary; a key without configuration is skipped, None on an optional
\* field becomes the empty string, every other value is converted to a string
\* that must match "^pattern$", and the first value that cannot be converted
\* or does not match raises.
prepare_fields_values(fields_values_dict, fields_conf, keys) ==
    LET known == (DOMAIN fields_values_dict) \cap (DOMAIN fields_conf)
        elided(n) == fields_values_dict[n] = None /\ fields_conf[n].is_optional
        prepared(n) ==
            IF n \notin known \/ elided(n) THEN Ok(<<>>)
            ELSE LET new_field_value == Encode(fields_conf[n], fields_values_dict[n])
                 IN  IF ~new_field_value.ok THEN new_field_value
                     ELSE IF ~MatchExact(fields_conf[n].pattern, new_field_value.val)
                     THEN Raise("ValueError", "Invalid field",
                                [field |-> n, value |-> new_field_value.val,
                                 pattern |-> fields_conf[n].pattern])
                     ELSE new_field_value
        failing == {i \in 1..Len(keys) : ~prepared(keys[i]).ok}
    IN  IF failing # {}
        THEN prepared(keys[CHOOSE i \in failing : \A j \in failing : i <= j])
        ELSE Ok([n \in known |-> prepared(n).val])

\* template.format(**fields_values_dict)
Format(tpl, strings) ==
    Concat([i \in 1..Len(tpl) |-> IF tpl[i].k = "fld" THEN strings[tpl[i].v] ELSE <<tpl[i].v>>])

\* An assembly that does not fill in the optional fields left out.
_get_path_unfilled(tpl, fields_conf, fields_values_dict) ==
    LET template_fields == get_template_fields_names(tpl)
        chk == check_template_fields(tpl, fields_values_dict)
        keys == SelectIn(Uniq(template_fields), DOMAIN fields_values_dict)
        prepared == prepare_fields_values(fields_values_dict, fields_conf, keys)
    IN  IF ~chk.ok THEN chk
        ELSE IF ~prepared.ok THEN prepared
        ELSE Ok(normpath(Format(tpl, prepared.val)))

\* _get_path(template, fields_conf, fields_values_dict)
_get_path(tpl, fields_conf, fields_values_dict) ==
    LET template_fields == get_template_fields_names(tpl)
        missing_fields == Range(template_fields) \ DOMAIN fields_values_dict
        no_conf == missing_fields \ DOMAIN fields_conf
        filled == [n \in (DOMAIN fields_values_dict) \cup
                         {m \in missing_fields : fields_conf[m].is_optional} |->
                      IF n \in DOMAIN fields_values_dict THEN fields_values_dict[n] ELSE None]
        chk == check_template_fields(tpl, filled)
        \* the keywords come in the order of the template, the optional
        \* fields filled in after them
        keys == SelectIn(Uniq(template_fields), DOMAIN fields_values_dict)
                    \o SelectIn(Uniq(template_fields), (DOMAIN filled) \ (DOMAIN fields_values_dict))
        prepared == prepare_fields_values(filled, fields_conf, keys)
    IN  IF no_conf # {} THEN Raise("KeyError", "fields_conf", [fields |-> no_conf])
        ELSE IF ~chk.ok THEN chk
        ELSE IF ~prepared.ok THEN prepared
        ELSE Ok(normpath(Format(tpl, prepared.val)))

\* get_path(**kwargs)
get_path(self, kwargs) == _get_path(self.template, self.fields, kwargs)

\* new_parent_template.split("{name}", 1)[0]
BeforeFirst(tpl, name) ==
    LET at == {i \in 1..Len(tpl) : tpl[i] = Fld(name)}
        first == CHOOSE i \in at : \A j \in at : i <= j
    IN  IF at = {} THEN tpl ELSE SubSeq(tpl, 1, first - 1)

\* A parent path that is assembled from the keys of the kept fields, whatever
\* other keys are supplied.
get_parent_path_dropping_extra(self, kwargs) ==
    LET parent_fields_names == get_template_fields_names(self.parent_template)
        parent_fields == Restrict(self.fields, Range(parent_fields_names))
        stops == {i \in 1..Len(parent_fields_names) :
                    /\ parent_fields_names[i] \notin DOMAIN kwargs
                    /\ ~parent_fields[parent_fields_names[i]].is_optional}
        stop == CHOOSE i \in stops : \A j \in stops : i <= j
        cut == stops # {}
        new_parent_template == IF cut THEN BeforeFirst(self.parent_template, parent_fields_names[stop])
                               ELSE self.parent_template
        dynamic_fields_names == IF cut THEN SubSeq(parent_fields_names, 1, stop - 1)
                                ELSE parent_fields_names
        kept_fields == Restrict(parent_fields, Range(dynamic_fields_names))
    IN  _get_path(new_parent_template, kept_fields,
                  Restrict(kwargs, (DOMAIN kwargs) \cap (DOMAIN kept_fields)))

\* get_parent_path(**kwargs)
get_parent_path(self, kwargs) ==
    LET fields_names == get_template_fields_names(self.template)
        parent_fields_names == get_template_fields_names(self.parent_template)
        \* "Drop fields corresponding to filename": one pop per occurrence
        dropped == {i \in 1..Len(fields_names) : fields_names[i] \notin Range(parent_fields_names)}
        popped_twice == {i \in dropped : \E j \in dropped : j < i /\ fields_names[j] = fields_names[i]}
        parent_fields == Restrict(self.fields, Range(parent_fields_names))
        \* the walk over the parent fields up to the first one that is neither
        \* supplied nor optional
        stops == {i \in 1..Len(parent_fields_names) :
                    /\ parent_fields_names[i] \notin DOMAIN kwargs
                    /\ ~parent_fields[parent_fields_names[i]].is_optional}
        stop == CHOOSE i \in stops : \A j \in stops : i <= j
        cut == stops # {}
        missing_kwarg_name == parent_fields_names[stop]
        new_parent_template == IF cut THEN BeforeFirst(self.parent_template, missing_kwarg_name)
                               ELSE self.parent_template
        dynamic_fields_names == IF cut THEN SubSeq(parent_fields_names, 1, stop - 1)
                                ELSE parent_fields_names
        kept_fields == Restrict(parent_fields, Range(dynamic_fields_names))
        extra_kwargs == Restrict(kwargs, (DOMAIN kwargs) \ (DOMAIN kept_fields))
    IN  IF popped_twice # {}
        THEN Raise("KeyError", "pop",
                   [field |-> fields_names[CHOOSE i \in popped_twice : \A j \in popped_twice : i <= j]])
        ELSE IF Range(parent_fields_names) \ (DOMAIN self.fields) # {}
        THEN Raise("KeyError", "parent_fields", <<>>)
        ELSE IF cut /\ DOMAIN extra_kwargs # {}
        THEN Raise("ValueError", "Unexpected extra kwargs",
                   [extra_kwargs |-> extra_kwargs, new_parent_template |-> new_parent_template,
                    missing_kwarg_name |-> missing_kwarg_name])
        ELSE _get_path(new_parent_template, kept_fields, kwargs)

\* assert_fields_bijection, second statement: the path is parsed back in
\* strict mode (when get_path has returned one).
ParsedBack(self, test_path, order) ==
    [test_path |-> test_path,
     result_parsed_fields |-> IF test_path.ok THEN parse_file_path(self, test_path.val, TRUE, order)
                              ELSE test_path]

\* assert_fields_bijection, third statement: the assertion that the parsed
\* fields equal the given ones.
Asserted(test_fields, run) ==
    [test_path |-> run.test_path,
     result_parsed_fields |-> run.result_parsed_fields,
     res |-> IF ~run.result_parsed_fields.ok THEN run.result_parsed_fields
             ELSE IF test_fields = run.result_parsed_fields.val THEN Ok(None)
             ELSE Raise("AssertionError", "!=",
                        [test_fields |-> test_fields,
                         result_parsed_fields |-> run.result_parsed_fields.val])]

\* assert_fields_bijection(test_fields), with its local variables: the path
\* get_path makes of the fields is parsed back and compared with the fields.
assert_fields_bijection(self, test_fields, order) ==
    Asserted(test_fields, ParsedBack(self, get_path(self, test_fields), order))

\* assert_path_bijection, second statement: the path is assembled again from
\* the parsed fields (when the strict parse has returned them).
Reassembled(self, parsed_fields) ==
    [parsed_fields |-> parsed_fields,
     result_test_path |-> IF parsed_fields.ok THEN get_path(self, parsed_fields.val)
                          ELSE parsed_fields]

\* assert_path_bijection, third statement: the assertion that the assembled
\* path equals the given one.
AssertedPath(test_path, run) ==
    [parsed_fields |-> run.parsed_fields,
     result_test_path |-> run.result_test_path,
     res |-> IF ~run.result_test_path.ok THEN run.result_test_path
             ELSE IF test_path = run.result_test_path.val THEN Ok(None)
             ELSE Raise("AssertionError", "!=",
                        [test_path |-> test_path, result_test_path |-> run.result_test_path.val])]

\* assert_path_bijection(test_path), with its local variables: the fields
\* parsed from the path in strict mode are assembled and compared with the path.
assert_path_bijection(self, test_path, order) ==
    AssertedPath(test_path, Reassembled(self, parse_file_path(self, test_path, TRUE, order)))

----------------------------------------------------------------------------
(* The builder in hand and the calls made on it *)

Idle == [op |-> "none"]

self == Builder(template, parent_template, fields, default_field)

\* Most keyword arguments a caller passes to replace, update or __call__.
MaxKwargs == 2

\* An optional field with the pattern of a plain field.
OptionalConf == FieldConf(FIELD, TRUE)

\* The characters of the strings the callers supply.
Alphabet == {"x", "y", "_", "/", "."}

Strings(n) == SeqsUpTo(Alphabet, n)

\* A character of template text that the regex syntax gives a meaning to.
Metacharacters == {"$"}

T(tokens) == [i \in 1..Len(tokens) |->
                IF tokens[i] \in Alphabet \cup Metacharacters
                THEN Lit(tokens[i]) ELSE Fld(tokens[i])]

\* Arguments the callers of the builder's constructor, replace, update and
\* __call__ draw from.
TemplateArgs ==
    {T(<<"a">>), T(<<"a", "/", "b">>), T(<<"b", "/", "a">>), T(<<"a", "/", "a">>),
     T(<<"/", "a", "/", "b">>), T(<<"a", "_", "b">>)}
ParentArgs ==
    {None, Some(<<>>), Some(T(<<"a">>)), Some(T(<<"b">>)), Some(T(<<"a", "/">>)), Some(T(<<"c">>))}
FieldsDicts ==
    {[n \in K |-> OptionalConf] : K \in {{"a"}, {"b"}, {"c"}, {"a", "b"}}}
FieldsArgs == {None} \cup {Some(d) : d \in FieldsDicts}
\* update(fields=...) also takes names set to None
UpdateFieldsArgs ==
    FieldsArgs \cup {Some([n \in K |-> IF n \in N THEN None ELSE OptionalConf]) :
                        K \in {{"a"}, {"c"}, {"a", "b"}}, N \in {{"a"}, {"b"}, {"c"}}}
DefaultArgs == {None, Some(OptionalConf)}

\* A keyword argument the caller leaves out.
Absent == [t |-> "absent"]

\* The keyword dictionary made of the arguments that are given.
Kwargs(t, p, f, d) ==
    LET all == [template |-> t, parent_template |-> p, fields |-> f, default_field |-> d]
    IN  Restrict(all, {n \in DOMAIN all : all[n] # Absent})

\* The keyword dictionaries the callers pass: at most MaxKwargs arguments each.
Passes(fields_args) ==
    {kwargs \in {Kwargs(t, p, f, d) : t \in {Absent} \cup {Some(x) : x \in TemplateArgs},
                                      p \in {Absent} \cup ParentArgs,
                                      f \in {Absent} \cup fields_args,
                                      d \in {Absent} \cup DefaultArgs} :
        Cardinality(DOMAIN kwargs) <= MaxKwargs}

Adopted(b) ==
    /\ template' = b.template
    /\ parent_template' = b.parent_template
    /\ fields' = b.fields
    /\ default_field' = b.default_field

Unchanged == UNCHANGED <<template, parent_template, fields, default_field>>

InitBuilder(templates, parents, fields_args, defaults) ==
    \E t \in templates, p \in parents, f \in fields_args, d \in defaults :
        LET made == PathBuilder(t, p, f, d)
        IN  /\ made.ok
            /\ template = made.val.template
            /\ parent_template = made.val.parent_template
            /\ fields = made.val.fields
            /\ default_field = made.val.default_field

Init ==
    /\ InitBuilder(TemplateArgs, ParentArgs, FieldsArgs, DefaultArgs)
    /\ last = Idle

\* PathBuilder(template, parent_template, fields, default_field)
Construct ==
    /\ last = Idle
    /\ \E t \in TemplateArgs, p \in ParentArgs, f \in FieldsArgs, d \in DefaultArgs :
          last' = [op |-> "construct", template |-> t, parent_template |-> p, fields |-> f,
                   default_field |-> d, res |-> PathBuilder(t, p, f, d),
                   made |-> PathBuilder_made("fields")]
    /\ Unchanged

\* self.replace(**kwargs)
Replace ==
    /\ last = Idle
    /\ \E kwargs \in Passes(FieldsArgs) :
          last' = [op |-> "replace", kwargs |-> kwargs, res |-> replace(self, kwargs),
                   made |-> replace_made(self, kwargs)]
    /\ Unchanged

\* self.update(**kwargs)
Update ==
    /\ last = Idle
    /\ \E kwargs \in Passes(UpdateFieldsArgs) :
          /\ last' = [op |-> "update", kwargs |-> kwargs, res |-> update(self, kwargs),
                      made |-> update_made(self, kwargs)]
          /\ fields' = update_writes(self, kwargs).self_fields
    /\ UNCHANGED <<template, parent_template, default_field>>

\* self(**kwargs)
Call ==
    /\ last = Idle
    /\ \E kwargs \in Passes(FieldsArgs) :
          last' = [op |-> "call", kwargs |-> kwargs, res |-> call(self, kwargs),
                   made |-> call_made(self, kwargs)]
    /\ Unchanged

\* PathBuilder.check_template_fields(path_template, map_dict)
CheckTemplateFields ==
    /\ last = Idle
    /\ \E t \in TemplateArgs, K \in SUBSET {"a", "b", "c"} :
          LET map_dict == [n \in K |-> Str(<<"x">>)]
          IN  last' = [op |-> "check_template_fields", path_template |-> t, map_dict |-> map_dict,
                       res |-> check_template_fields(t, map_dict)]
    /\ Unchanged

BuilderOps == {"construct", "replace", "update", "call"}

\* The caller goes on with the builder the call returned.
Adopt ==
    /\ last.op \in BuilderOps
    /\ last.res.ok
    /\ Adopted(last.res.val)
    /\ last' = Idle

\* The caller drops the outcome and keeps the builder it had.
Return ==
    /\ last # Idle
    /\ last' = Idle
    /\ Unchanged

Next == Construct \/ Replace \/ Update \/ Call \/ CheckTemplateFields \/ Adopt \/ Return

Spec == Init /\ [][Next]_vars

----------------------------------------------------------------------------
(* Parsing paths: parse_file_path on a builder, parse_fields on its own *)

\* The orders in which the set of a template's field names can be iterated.
Orders(tpl) ==
    LET S == Range(get_template_fields_names(tpl))
    IN  {q \in [1..Cardinality(S) -> S] : Range(q) = S}

ParseTemplates ==
    {T(<<"a", "_", "b">>), T(<<"a", ".", "b">>), T(<<"a", "/", "b">>),
     T(<<"v", "_", "v">>), T(<<"v", "v", "v__0", "v__0">>), T(<<"v", "v", "v__0">>),
     T(<<"a", "$">>)}

\* The strings handed to the parsers: the callers' strings and the ones that end
\* with the template's literal "$".
ParseStrings ==
    Strings(MaxLen) \cup {Append(s, c) : s \in Strings(MaxLen - 1), c \in Metacharacters}
ParseFieldsArgs == {None, Some([n \in {"a"} |-> OptionalConf])}

\* [a-zA-Z0-9]+, a greedy pattern handed to parse_fields directly
GreedyWord == <<<<Atom({"x", "y"}, 1, TRUE, FALSE)>>>>

InitParse ==
    /\ InitBuilder(ParseTemplates, {None}, ParseFieldsArgs, {None})
    /\ last = Idle

\* self.parse_file_path(file_path, raise_error)
ParseFilePath ==
    /\ last = Idle
    /\ \E file_path \in ParseStrings, raise_error \in BOOLEAN, order \in Orders(template) :
          last' = [op |-> "parse_file_path", file_path |-> file_path, raise_error |-> raise_error,
                   order |-> order, res |-> parse_file_path(self, file_path, raise_error, order)]
    /\ Unchanged

\* PathBuilder.parse_fields(_string, template, pattern_dict, raise_error)
ParseFields ==
    /\ last = Idle
    /\ \E string \in ParseStrings, raise_error \in BOOLEAN, order \in Orders(template) :
          LET pattern_dict == [n \in DOMAIN fields |-> GreedyWord]
          IN  last' = [op |-> "parse_fields", string |-> string, template |-> template,
                       pattern_dict |-> pattern_dict, raise_error |-> raise_error, order |-> order,
                       res |-> parse_fields(string, template, pattern_dict, raise_error, order)]
    /\ Unchanged

NextParse == ParseFilePath \/ ParseFields \/ Return

SpecParse == InitParse /\ [][NextParse]_vars

----------------------------------------------------------------------------
(* Assembling paths and parsing them back: get_path, assert_fields_bijection *)

\* Most characters the values of one call hold together.
MaxValueChars == 3

\* The characters of the values the callers supply.
ValueAlphabet == {"x", "_", "/", ".", NL}

Values == {None} \cup {Str(s) : s \in SeqsUpTo(ValueAlphabet, MaxValueChars - 1)}

ValueLen(v) == IF v = None THEN 0 ELSE Len(v.s)

RECURSIVE ValueChars(_)
ValueChars(kwargs) ==
    IF DOMAIN kwargs = {} THEN 0
    ELSE LET n == CHOOSE n \in DOMAIN kwargs : TRUE
         IN  ValueLen(kwargs[n]) + ValueChars(Restrict(kwargs, (DOMAIN kwargs) \ {n}))

\* The keyword arguments get_path is called with: values for some of `names`.
ValueKwargs(names) ==
    {kwargs \in UNION {[K -> Values] : K \in SUBSET names} : ValueChars(kwargs) <= MaxValueChars}

\* Keyword arguments with values of one character at most.
ShortValues == {v \in Values : ValueLen(v) <= 1}
ShortKwargs(names) ==
    {kwargs \in UNION {[K -> ShortValues] : K \in SUBSET names} : ValueChars(kwargs) <= MaxValueChars}

\* [x]{1}, a constrained pattern as the documentation of is_optional asks for
ONE == <<<<Atom({"x"}, 1, FALSE, FALSE)>>>>

\* x|_, a pattern with a top-level alternation
EITHER == <<<<Atom({"x"}, 1, FALSE, FALSE)>>, <<Atom({"_"}, 1, FALSE, FALSE)>>>>

PathConfs ==
    {DefaultFieldConf, FieldConf(FIELD, TRUE), FieldConf(DIRPATH, TRUE), FieldConf(ONE, TRUE),
     FieldConf(EITHER, FALSE)}

PathTemplates ==
    {T(<<"a", "_", "b">>), T(<<"a", "/", "b">>), T(<<"a", "b">>), T(<<"a", "/">>),
     T(<<"v", "_", "v">>)}

PathFieldsArgs == {Some(f) : f \in UNION {[K -> PathConfs] : K \in {{"a", "b"}, {"a"}, {"v"}}}}

InitPath ==
    /\ InitBuilder(PathTemplates, {None}, PathFieldsArgs, {None})
    /\ last = Idle

\* self.get_path(**kwargs)
GetPath ==
    /\ last = Idle
    /\ \E kwargs \in ShortKwargs(DOMAIN fields) :
          last' = [op |-> "get_path", kwargs |-> kwargs, res |-> get_path(self, kwargs)]
    /\ Unchanged

\* self.assert_fields_bijection(test_fields)
AssertFieldsBijection ==
    /\ last = Idle
    /\ \E test_fields \in ValueKwargs(DOMAIN fields), order \in Orders(template) :
          last' = [op |-> "assert_fields_bijection", test_fields |-> test_fields, order |-> order]
                      @@ assert_fields_bijection(self, test_fields, order)
    /\ Unchanged

\* The paths handed to assert_path_bijection.
PathStrings == SeqsUpTo(ValueAlphabet, MaxValueChars)

\* self.assert_path_bijection(test_path)
AssertPathBijection ==
    /\ last = Idle
    /\ \E test_path \in PathStrings, order \in Orders(template) :
          last' = [op |-> "assert_path_bijection", test_path |-> test_path, order |-> order]
                      @@ assert_path_bijection(self, test_path, order)
    /\ Unchanged

NextPath == GetPath \/ AssertFieldsBijection \/ AssertPathBijection \/ Return

SpecPath == InitPath /\ [][NextPath]_vars

----------------------------------------------------------------------------
(* Parent paths: get_parent_path *)

ParentTemplates ==
    {T(<<"a", "/", "b", "/", "n">>), T(<<"a", "/", "b", "/", "a", "/", "n">>),
     T(<<"a", "/", "v", "_", "v">>), T(<<"a", "/", "b", "/", "v", "_", "v">>)}

ParentTemplateArgs == {None, Some(T(<<"b">>)), Some(T(<<"a", "/", "b">>))}

ParentConfs == {DefaultFieldConf, OptionalConf}

ParentFieldsArgs ==
    {Some(f) : f \in UNION {[K -> ParentConfs] : K \in {{"a", "b", "n"}, {"a", "v"}, {"a", "b", "v"}}}}

InitParent ==
    /\ InitBuilder(ParentTemplates, ParentTemplateArgs, ParentFieldsArgs, {None})
    /\ last = Idle

\* self.get_parent_path(**kwargs), with keys for the fields and for a name that
\* is no field
GetParentPath ==
    /\ last = Idle
    /\ \E kwargs \in ShortKwargs((DOMAIN fields) \cup {"z"}) :
          last' = [op |-> "get_parent_path", kwargs |-> kwargs, res |-> get_parent_path(self, kwargs)]
    /\ Unchanged

NextParent == GetParentPath \/ Return

SpecParent == InitParent /\ [][NextParent]_vars

----------------------------------------------------------------------------
(* Configuring field specs: FieldConf(...) and FieldConf.replace *)

\* A keyword argument is left out or given one of the values of S.
Given(S) == {Absent} \cup {Some(v) : v \in S}

\* The format strings and the callables the callers configure; a converter
\* attribute can also be given as None.
Formats == {"%d"}
Decoders == {"str.lower"}
Encoders == {"str.upper"}

\* Keyword arguments the callers of FieldConf and FieldConf.replace pass.
ConfKwargs ==
    {LET all == [pattern |-> p, is_optional |-> o, date_format |-> df, datetime_format |-> dtf,
                 str_to_var |-> sv, var_to_str |-> vs]
     IN  [a \in {n \in DOMAIN all : all[n] # Absent} |-> all[a].v] :
        p \in Given({FIELD}), o \in Given({TRUE}),
        df \in Given(Formats \cup {NoConverter}), dtf \in Given(Formats \cup {NoConverter}),
        sv \in Given(Decoders \cup {NoConverter}), vs \in Given(Encoders \cup {NoConverter})}

\* The field specs that construction yields from those arguments.
Confs == {FieldConf_init(kwargs).val : kwargs \in {kw \in ConfKwargs : FieldConf_init(kw).ok}}

\* A builder whose default spec is any of them.
InitConf ==
    /\ InitBuilder({T(<<"a", "_", "b">>)}, {None}, {None}, {Some(conf) : conf \in Confs})
    /\ last = Idle

\* FieldConf(**kwargs)
NewFieldConf ==
    /\ last = Idle
    /\ \E kwargs \in ConfKwargs :
          last' = [op |-> "FieldConf", conf |-> DefaultFieldConf, kwargs |-> kwargs,
                   res |-> FieldConf_init(kwargs)]
    /\ Unchanged

\* self.default_field.replace(**kwargs)
ReplaceFieldConf ==
    /\ last = Idle
    /\ \E kwargs \in ConfKwargs :
          last' = [op |-> "FieldConf.replace", conf |-> default_field, kwargs |-> kwargs,
                   res |-> FieldConf_replace(default_field, kwargs)]
    /\ Unchanged

NextConf == NewFieldConf \/ ReplaceFieldConf \/ Return

SpecConf == InitConf /\ [][NextConf]_vars

----------------------------------------------------------------------------
(* Converting values: prepare_fields_values, process_parsed_fields_values *)

\* The strings parsed for a field, and the values supplied for it.
CodecStrings == {<<>>, <<"x">>, <<"X">>, <<"1">>, <<"0", "1">>, <<"3", "2">>}
CodecValues == {None, Str(<<"x">>), Str(<<"0", "1">>), Date(1), DateTime(11)}

\* The key order of a dictionary over the template's names, which the callers
\* fill in the order of the template.
TemplateKeys(d) == SelectIn(Uniq(get_template_fields_names(template)), DOMAIN d)

\* A builder whose field b has any of the field specs, converters included.
InitCodec ==
    /\ InitBuilder({T(<<"a", "_", "b">>), T(<<"a", "_", "b", "_", "a">>)}, {None},
                   {Some([b |-> conf]) : conf \in Confs}, {None})
    /\ last = Idle

\* self.process_parsed_fields_values(parsed_fields)
ProcessParsedFieldsValues ==
    /\ last = Idle
    /\ \E parsed_fields \in UNION {[K -> CodecStrings] : K \in SUBSET DOMAIN fields} :
          last' = [op |-> "process_parsed_fields_values", parsed_fields |-> parsed_fields,
                   res |-> process_parsed_fields_values(self, parsed_fields,
                                                        TemplateKeys(parsed_fields))]
    /\ Unchanged

\* PathBuilder.prepare_fields_values(fields_values_dict, self.fields)
PrepareFieldsValues ==
    /\ last = Idle
    /\ \E fields_values_dict \in UNION {[K -> CodecValues] : K \in SUBSET DOMAIN fields} :
          last' = [op |-> "prepare_fields_values", fields_values_dict |-> fields_values_dict,
                   res |-> prepare_fields_values(fields_values_dict, fields,
                                                 TemplateKeys(fields_values_dict))]
    /\ Unchanged

\* self.get_path(**kwargs) with values of every type, for the fields and for
\* a name that is no field
GetPathOfValues ==
    /\ last = Idle
    /\ \E kwargs \in UNION {[K -> CodecValues] : K \in SUBSET ((DOMAIN fields) \cup {"z"})} :
          last' = [op |-> "get_path", kwargs |-> kwargs, res |-> get_path(self, kwargs)]
    /\ Unchanged

\* self.parse_file_path(file_path, raise_error=True)
ParseFilePathOfValues ==
    /\ last = Idle
    /\ \E file_path \in SeqsUpTo({"x", "1", "_"}, MaxLen), order \in Orders(template) :
          last' = [op |-> "parse_file_path", file_path |-> file_path, raise_error |-> TRUE,
                   order |-> order, res |-> parse_file_path(self, file_path, TRUE, order)]
    /\ Unchanged

NextCodec ==
    ProcessParsedFieldsValues \/ PrepareFieldsValues \/ GetPathOfValues \/ ParseFilePathOfValues
        \/ Return

SpecCodec == InitCodec /\ [][NextCodec]_vars

----------------------------------------------------------------------------
(* Normalizing paths: os.path.normpath on its own and at the end of get_path *)

\* Longest string handed to the normalization on its own.
MaxPathLen == 6

PathAlphabet == {"x", ".", "/"}

\* The builders whose paths are normalized: values may hold separators and dots.
InitNorm ==
    /\ InitBuilder({T(<<"a", "/", "b">>), T(<<"/", "a", "/", ".", "/", "b">>), T(<<"a", "/", "/", "b">>)},
                   {None}, {Some([a |-> FieldConf(DIRPATH, oa), b |-> FieldConf(DIRPATH, ob)]) : oa, ob \in BOOLEAN},
                   {None})
    /\ last = Idle

\* os.path.normpath(new_path), and the normalization of what it returned
Normpath ==
    /\ last = Idle
    /\ \E new_path \in SeqsUpTo(PathAlphabet, MaxPathLen) :
          last' = [op |-> "normpath", new_path |-> new_path, res |-> Ok(normpath(new_path))]
    /\ Unchanged

\* The values of the paths that are normalized.
NormValues == {None} \cup {Str(s) : s \in SeqsUpTo(PathAlphabet, MaxValueChars)}

\* self.get_path(**kwargs)
GetNormalPath ==
    /\ last = Idle
    /\ \E kwargs \in UNION {[K -> NormValues] : K \in SUBSET DOMAIN fields} :
          last' = [op |-> "get_path", kwargs |-> kwargs, res |-> get_path(self, kwargs)]
    /\ Unchanged

\* self.get_parent_path(**kwargs)
GetNormalParentPath ==
    /\ last = Idle
    /\ \E kwargs \in UNION {[K -> NormValues] : K \in SUBSET DOMAIN fields} :
          last' = [op |-> "get_parent_path", kwargs |-> kwargs, res |-> get_parent_path(self, kwargs)]
    /\ Unchanged

NextNorm == Normpath \/ GetNormalPath \/ GetNormalParentPath \/ Return

SpecNorm == InitNorm /\ [][NextNorm]_vars

----------------------------------------------------------------------------
(* Properties of parsing *)

Parsing == last.op \in {"parse_file_path", "parse_fields"}

\* The template, the patterns and the input string of the parse that has just
\* returned.
ParsedTemplate == IF last.op = "parse_file_path" THEN ParseTemplate(self) ELSE last.template
ParsedPatterns == IF last.op = "parse_file_path" THEN ParsePatterns(self) ELSE last.pattern_dict
ParsedString == IF last.op = "parse_file_path" THEN last.file_path ELSE last.string

\* The anchored pattern that parse compiled, and whether the input matches it.
CompiledPattern == ParsePlan(ParsedTemplate, ParsedPatterns, last.order).path_pattern
Compiles == ~Redefines(CompiledPattern)
Mismatch == Compiles /\ ~MatchFrom(CompiledPattern, ParsedString, 0).matched

\* C2: in non-strict mode, parse_file_path returns None and raises nothing for
\* every input string that does not match the builder's compiled pattern.
C2_NonStrictMismatchReturnsNone ==
    (last.op = "parse_file_path" /\ ~last.raise_error /\ Mismatch)
        => (last.res.ok /\ last.res.val = None)

\* C3: in strict mode, parsing an input string that does not match the compiled
\* anchored pattern raises the parse error that carries the input string and
\* the compiled pattern; no field map is returned.
C3_StrictMismatchRaises ==
    (Parsing /\ last.raise_error /\ Mismatch)
        => /\ ~last.res.ok
           /\ last.res.exc = "ValueError"
           /\ last.res.msg = "Invalid string"
           /\ last.res.args.string = ParsedString
           /\ last.res.args.pattern = CompiledPattern

C3_Witness ==
    /\ last.op = "parse_file_path"
    /\ last.raise_error
    /\ Mismatch
    /\ Len(last.file_path) = MaxLen
    /\ ~last.res.ok

\* What each placeholder of the template captures when the input matches the
\* template's pattern: the groups are taken by position, under the field's own
\* name, whatever names the program gives them.
Captured ==
    LET elems == FormatPattern(ParsedTemplate, assign_groupname_pattern_dict(ParsedPatterns))
    IN  MatchFrom(elems, ParsedString, 0)

CapturedBy(name) ==
    LET of == SelectSeq(Captured.groups, LAMBDA g : g.name = name)
    IN  [i \in 1..Len(of) |-> of[i].text]

Repeated == {n \in Range(get_template_fields_names(ParsedTemplate)) :
                Count(get_template_fields_names(ParsedTemplate), n) > 1}

Conflicting == {n \in Repeated : Cardinality(Range(CapturedBy(n))) > 1}

\* The field map a parse returns when every repeated field captured one value.
FusedFields ==
    LET strings == [n \in Range(get_template_fields_names(ParsedTemplate)) |-> CapturedBy(n)[1]]
    IN  IF last.op = "parse_fields" THEN Ok(strings)
        ELSE process_parsed_fields_values(self, strings,
                                          Uniq(get_template_fields_names(ParsedTemplate)))

\* C4: with a field name that occurs more than once in the template, parsing an
\* input that matches the pattern fails with the error naming the field and its
\* captured values when two occurrences captured different substrings, and
\* otherwise returns one entry per field under the field's own name, holding the
\* common captured value.
C4_DuplicateFieldConsistency ==
    (Parsing /\ Repeated # {} /\ Captured.matched)
        => IF Conflicting # {}
           THEN /\ ~last.res.ok
                /\ last.res.msg = "More than one value was found for repeated field"
                /\ last.res.args.field \in Conflicting
                /\ last.res.args.values = CapturedBy(last.res.args.field)
           ELSE last.res = FusedFields

----------------------------------------------------------------------------
(* Properties of the round trip from fields to a path and back *)

Bijecting == last.op = "assert_fields_bijection"

\* The optional fields the call left out or gave as None.
Elided ==
    {n \in DOMAIN fields :
        /\ fields[n].is_optional
        /\ n \in DOMAIN last.test_fields => last.test_fields[n] = None}

\* The text each placeholder stands for in the path: the value as given, and
\* nothing for an elided field.
Rendered ==
    [n \in (DOMAIN last.test_fields) \cup Elided |->
        IF n \in Elided THEN <<>> ELSE Encode(fields[n], last.test_fields[n]).val]

\* Every value given is a string its field's pattern validates, and every field
\* that is not optional has one.
ValuesValid ==
    /\ DOMAIN Rendered = DOMAIN fields
    /\ \A n \in (DOMAIN fields) \ Elided :
          /\ last.test_fields[n] # None
          /\ MatchExact(fields[n].pattern, last.test_fields[n].s)

\* The template with the values put in, before normalization.
Substituted == Format(template, Rendered)

LiteralChars == {template[i].v : i \in {j \in 1..Len(template) : template[j].k = "lit"}}

Accepts(pattern, c) ==
    \E i \in 1..Len(pattern) : \E j \in 1..Len(pattern[i]) : c \in pattern[i][j].cs

\* Every pattern is one quantified character class, as the SafePatterns are.
OneClassEach == \A n \in DOMAIN fields : Len(fields[n].pattern) = 1 /\ Len(fields[n].pattern[1]) = 1

OnceEach == \A n \in DOMAIN fields : Count(get_template_fields_names(template), n) = 1

Separated ==
    \A i \in 1..(Len(template) - 1) : ~(template[i].k = "fld" /\ template[i + 1].k = "fld")

NoLineBreak == \A n \in DOMAIN Rendered : \A i \in 1..Len(Rendered[n]) : Rendered[n][i] # NL

ElidesSeparator == OptionalSeparators(template, fields) # template

\* The fields and the template make a well-posed round trip: the values are
\* valid, non-empty strings holding no line break and no character of the
\* template's literal text, each name occurs once and literal text separates
\* the placeholders, every pattern is one character class, none of which
\* accepts the separator where the separator after an optional field is made
\* optional, and normalization leaves the substituted text as it is.
WellPosed ==
    /\ ValuesValid
    /\ \A n \in (DOMAIN fields) \ Elided :
          /\ Rendered[n] # <<>>
          /\ \A i \in 1..Len(Rendered[n]) : Rendered[n][i] \notin LiteralChars
    /\ NoLineBreak
    /\ OnceEach
    /\ Separated
    /\ OneClassEach
    /\ ElidesSeparator => \A n \in DOMAIN fields : ~Accepts(fields[n].pattern, DirSep)
    /\ normpath(Substituted) = Substituted

C5_ElisionRoundTrip ==
    (Bijecting /\ Elided # {} /\ ValuesValid)
        => /\ last.test_path = Ok(normpath(Substituted))
           /\ last.result_parsed_fields.ok
           /\ \A f \in Elided : last.result_parsed_fields.val[f] = None

----------------------------------------------------------------------------
(* Properties of parent paths *)

Parenting == last.op = "get_parent_path"

\* The parent template's field sequence.
ParentNames == get_template_fields_names(parent_template)

\* The positions of the fields that are neither optional nor supplied.
Unsupplied ==
    {k \in 1..Len(ParentNames) :
        ParentNames[k] \notin DOMAIN last.kwargs /\ ~fields[ParentNames[k]].is_optional}

Truncating == Parenting /\ Unsupplied # {}

\* The position of the cut and the field found there.
CutAt == CHOOSE k \in Unsupplied : \A j \in Unsupplied : k <= j
CutField == ParentNames[CutAt]

\* The fields before the cut, and those at or after it (all fields are before
\* the cut when nothing is cut).
KeptNames ==
    IF Unsupplied = {} THEN Range(ParentNames) ELSE Range(SubSeq(ParentNames, 1, CutAt - 1))
DroppedNames == Range(ParentNames) \ KeptNames

\* The parent-template text that precedes the placeholder at the cut.
TruncatedTemplate ==
    LET placeholders == {i \in 1..Len(parent_template) : parent_template[i].k = "fld"}
        at == CHOOSE i \in placeholders :
                  Cardinality({j \in placeholders : j <= i}) = CutAt
    IN  IF Unsupplied = {} THEN parent_template ELSE SubSeq(parent_template, 1, at - 1)

\* The keys supplied are fields before the cut and their values are valid.
KeptValuesValid ==
    /\ DOMAIN last.kwargs \subseteq KeptNames
    /\ \A n \in DOMAIN last.kwargs :
          IF last.kwargs[n] = None THEN fields[n].is_optional
          ELSE MatchExact(fields[n].pattern, last.kwargs[n].s)

KeptRendered ==
    [n \in KeptNames |->
        IF n \notin DOMAIN last.kwargs \/ last.kwargs[n] = None THEN <<>> ELSE last.kwargs[n].s]

\* C6: with valid values for fields before the cut only, get_parent_path
\* returns the normalized assembly of the parent-template text that precedes
\* the first field neither optional nor supplied, filled with the fields before
\* it (the omitted optional ones as empty), and of the full parent template
\* when there is no such field.
C6_ParentTruncation ==
    (Parenting /\ KeptValuesValid)
        => last.res = Ok(normpath(Format(TruncatedTemplate, KeptRendered)))

\* C7: when the parent template is truncated because a required field is not
\* supplied, a key for a field dropped by the cut makes the call fail with the
\* error naming the extra keys, the truncated template and the missing field.
C7_ExtraKwargsRejected ==
    (Truncating /\ (DOMAIN last.kwargs) \cap DroppedNames # {})
        => /\ ~last.res.ok
           /\ last.res.msg = "Unexpected extra kwargs"
           /\ (DOMAIN last.kwargs) \cap DroppedNames \subseteq DOMAIN last.res.args.extra_kwargs
           /\ last.res.args.new_parent_template = TruncatedTemplate
           /\ last.res.args.missing_kwarg_name = CutField

----------------------------------------------------------------------------
(* Properties of construction and of the coverage check *)

Names(tpl) == Range(get_template_fields_names(tpl))

\* The builders there are: the one in hand and the one a call has just returned.
Builders ==
    {self} \cup (IF last.op \in BuilderOps /\ last.res.ok THEN {last.res.val} ELSE {})

\* A call that has just run the constructor (self() with no argument does not).
Building ==
    \/ last.op \in {"construct", "replace", "update"}
    \/ last.op = "call" /\ DOMAIN last.kwargs # {}

\* The template and the registry keys the call that has just returned asked
\* for: the keyword arguments where given, else what the builder in hand has.
AskedTemplate ==
    IF last.op = "construct" THEN last.template
    ELSE Kw(last.kwargs, "template", Some(template)).v

AskedKeys ==
    LET given == IF last.op = "construct" THEN last.fields
                 ELSE Kw(last.kwargs, "fields", Some(fields))
        laid == Overlay(fields, given.v)
    IN  IF given = None THEN {}
        ELSE IF last.op = "update" /\ "fields" \in DOMAIN last.kwargs
        THEN {n \in DOMAIN laid : laid[n] # None}
        ELSE DOMAIN given.v

\* C8: in every builder obtained by construction, replace, update and call, the
\* keys of the field registry are the placeholder names of the template; a call
\* that asks for a registry key that is no placeholder of the template fails.
C8_Coverage ==
    /\ \A b \in Builders : DOMAIN b.fields = Names(b.template)
    /\ (Building /\ ~(AskedKeys \subseteq Names(AskedTemplate))) => ~last.res.ok

C8_Witness ==
    /\ last.op = "update"
    /\ "template" \in DOMAIN last.kwargs
    /\ "fields" \in DOMAIN last.kwargs
    /\ last.res.ok
    /\ Names(last.res.val.template) # Names(template)
    /\ DOMAIN last.res.val.fields # DOMAIN fields

CheckedInvalid == (DOMAIN last.map_dict) \ Names(last.path_template)
CheckedMissing ==
    SelectIn(get_template_fields_names(last.path_template),
             Names(last.path_template) \ DOMAIN last.map_dict)

C10_ParentIsPrefix ==
    (Building /\ last.res.ok)
        => /\ IsPrefix(last.res.val.parent_template, last.res.val.template)
           /\ IsPrefix(get_template_fields_names(last.res.val.parent_template),
                       get_template_fields_names(last.res.val.template))

\* The parent template the call that has just returned asked for.
AskedParent ==
    LET given == IF last.op = "construct" THEN last.parent_template
                 ELSE Kw(last.kwargs, "parent_template",
                         IF "template" \in DOMAIN last.kwargs THEN None ELSE Some(parent_template))
    IN  given

\* C10 as amended: construction fails unless the parent template occurs in the
\* template as a substring, which need not be a prefix; in every builder the
\* parent template is a substring of the template, and it is a prefix when no
\* parent template was given.
C10_ParentIsSubstring ==
    /\ \A b \in Builders : IsSubstring(b.parent_template, b.template)
    /\ Building
          => /\ (AskedParent # None /\ ~IsSubstring(AskedParent.v, AskedTemplate)) => ~last.res.ok
             /\ (AskedParent = None /\ last.res.ok)
                   => /\ last.res.val.parent_template = dirname(AskedTemplate)
                      /\ IsPrefix(last.res.val.parent_template, last.res.val.template)

C10_Witness ==
    /\ last.op = "construct"
    /\ last.res.ok
    /\ ~IsPrefix(last.res.val.parent_template, last.res.val.template)
    /\ ~IsPrefix(get_template_fields_names(last.res.val.parent_template),
                 get_template_fields_names(last.res.val.template))

----------------------------------------------------------------------------
(* Properties of field specs *)

Configuring == last.op \in {"FieldConf", "FieldConf.replace"}

\* How many of the three converters a field spec has: its date format, its
\* datetime format, its custom functions (one or both).
Converters(conf) ==
    (IF conf.date_format # NoConverter THEN 1 ELSE 0)
    + (IF conf.datetime_format # NoConverter THEN 1 ELSE 0)
    + (IF conf.str_to_var # NoConverter \/ conf.var_to_str # NoConverter THEN 1 ELSE 0)

\* The attributes the call that has just returned asked for: the given ones,
\* and for the others the defaults (FieldConf) or those of the spec replaced.
AskedConf == [a \in DOMAIN DefaultFieldConf |-> Kw(last.kwargs, a, last.conf[a])]

\* C11: converter exclusivity.  Every field spec that construction or
\* FieldConf.replace has produced (the one returned, the default spec and the
\* registry of the builder made from it) has at most one converter among date
\* format, datetime format and custom functions; asking for two or more fails
\* and returns no field spec, and asking for at most one returns the spec asked.
C11_ConverterExclusivity ==
    /\ Converters(default_field) <= 1
    /\ \A n \in DOMAIN fields : Converters(fields[n]) <= 1
    /\ Configuring
          => IF Converters(AskedConf) > 1
             THEN /\ ~last.res.ok
                  /\ last.res.exc = "ValueError"
             ELSE /\ last.res.ok
                  /\ last.res.val = AskedConf
                  /\ Converters(last.res.val) <= 1

\* FieldConf.replace on a spec with a date format is asked for a datetime
\* format as well, and fails.
C11_Witness ==
    /\ last.op = "FieldConf.replace"
    /\ last.conf.date_format # NoConverter
    /\ "datetime_format" \in DOMAIN last.kwargs
    /\ "date_format" \notin DOMAIN last.kwargs
    /\ Converters(AskedConf) = 2
    /\ ~last.res.ok

----------------------------------------------------------------------------
(* Properties of the validation of values *)

\* A call that assembles the path of the builder from keyword values.
Assembling == last.op \in {"get_path", "assert_fields_bijection"}
SuppliedValues == IF last.op = "get_path" THEN last.kwargs ELSE last.test_fields
AssembledPath == IF last.op = "get_path" THEN last.res ELSE last.test_path

\* Does the pattern fragment match the string from its start to its end?
FullMatch(pattern, string) ==
    \E i \in 1..Len(pattern) :
        LET ends == AltEnds(pattern[i], string, 0)
        IN  \E j \in 1..Len(ends) : ends[j] = Len(string)

\* The supplied non-null values whose encoded string their field's pattern does
\* not match from start to end.
NotFullyMatched ==
    {n \in (DOMAIN SuppliedValues) \cap (DOMAIN fields) :
        /\ SuppliedValues[n] # None
        /\ Encode(fields[n], SuppliedValues[n]).ok
        /\ ~FullMatch(fields[n].pattern, Encode(fields[n], SuppliedValues[n]).val)}

\* The supplied keys are names of the template and every placeholder that is
\* not optional has a value.
Covered ==
    /\ DOMAIN SuppliedValues \subseteq Names(template)
    /\ \A n \in Names(template) : n \in DOMAIN SuppliedValues \/ fields[n].is_optional

\* C12: encode validation.  Whenever the encoded string of a supplied non-null
\* value is not a full, start-to-end match of its field's pattern (a pattern
\* that is a top-level alternation included), get_path fails with the
\* validation error and returns no path.
C12_EncodeValidation ==
    (Assembling /\ Covered /\ NotFullyMatched # {})
        => /\ ~AssembledPath.ok
           /\ AssembledPath.exc = "ValueError"
           /\ AssembledPath.msg = "Invalid field"

----------------------------------------------------------------------------
(* Properties of the conversions *)

Decoding == last.op = "process_parsed_fields_values"
Encoding == last.op = "prepare_fields_values"

\* The optional fields for which the empty string was captured, and those for
\* which None was supplied.
CapturedEmpty ==
    {n \in (DOMAIN last.parsed_fields) \cap (DOMAIN fields) :
        fields[n].is_optional /\ last.parsed_fields[n] = <<>>}
SuppliedNone ==
    {n \in (DOMAIN last.fields_values_dict) \cap (DOMAIN fields) :
        fields[n].is_optional /\ last.fields_values_dict[n] = None}

\* Every other captured string matches its field's pattern and its field's
\* converter reads it; every other supplied value is one its field's converter
\* writes as a string that matches the pattern.
OthersDecode ==
    \A n \in (DOMAIN last.parsed_fields) \ CapturedEmpty :
        /\ n \in DOMAIN fields
        /\ FullMatch(fields[n].pattern, last.parsed_fields[n])
        /\ Decode(fields[n], last.parsed_fields[n]).ok
OthersEncode ==
    \A n \in (DOMAIN last.fields_values_dict) \ SuppliedNone :
        /\ n \in DOMAIN fields
        /\ Encode(fields[n], last.fields_values_dict[n]).ok
        /\ FullMatch(fields[n].pattern, Encode(fields[n], last.fields_values_dict[n]).val)

\* C13: for an optional field with any converter (none, date format, datetime
\* format, custom functions), decoding an empty captured string gives None
\* without an error, and encoding None gives the empty string.
C13_EmptyIsNull ==
    /\ (Decoding /\ OthersDecode)
          => /\ last.res.ok
             /\ \A n \in CapturedEmpty : last.res.val[n] = None
    /\ (Encoding /\ OthersEncode)
          => /\ last.res.ok
             /\ \A n \in SuppliedNone : last.res.val[n] = <<>>

----------------------------------------------------------------------------
(* Properties of the normalization *)

\* The template with the encoded values put in, as handed to the normalization.
AssembledText ==
    Format(template,
           [n \in Names(template) |->
               IF n \in DOMAIN SuppliedValues /\ SuppliedValues[n] # None
               THEN Encode(fields[n], SuppliedValues[n]).val ELSE <<>>])

DotDot == <<".", ".">>

\* A segment that names a file or a directory.
Named(segment) == segment \notin {<<>>, <<".">>, DotDot}

\* Does the path hold a ".." segment right after the segment `before`?
KeepsDotDotAfter(path, before) ==
    \E j \in 2..Len(Split(path)) : Split(path)[j] = DotDot /\ Split(path)[j - 1] = before

\* C14: normalization leaves ".." segments untouched.  Every ".." segment that
\* follows a named segment in the substituted template string is still in the
\* returned path, after that same segment.
C14_DotDotUntouched ==
    (Assembling /\ AssembledPath.ok)
        => \A i \in 2..Len(Split(AssembledText)) :
              (Split(AssembledText)[i] = DotDot /\ Named(Split(AssembledText)[i - 1]))
                  => KeepsDotDotAfter(AssembledPath.val, Split(AssembledText)[i - 1])


Normalizing == last.op = "normpath"

\* C15: normalization is idempotent.  Normalizing a normalized string gives the
\* same string, for every string, and so every path that get_path or
\* get_parent_path returns is a fixed point of the normalization.
C15_NormalizationIdempotent ==
    /\ Normalizing => normpath(last.res.val) = last.res.val
    /\ (last.op \in {"get_path", "get_parent_path"} /\ last.res.ok)
          => normpath(last.res.val) = last.res.val

\* A string of the greatest length that the normalization changes, with a ".."
\* after a named segment and an empty segment in it.
C15_Witness ==
    /\ Normalizing
    /\ last.res.val # last.new_path
    /\ \E i \in 2..Len(Split(last.new_path)) :
          Split(last.new_path)[i] = DotDot /\ Named(Split(last.new_path)[i - 1])
    /\ <<>> \in Range(Split(last.new_path))
    /\ Len(last.new_path) = MaxPathLen

----------------------------------------------------------------------------
(* Properties of replace and update *)

\* C16: replace and update never mutate the builder they are called on.  A step
\* that makes either call, whether the call succeeds or fails, leaves the
\* builder's template, parent template, default spec and registry (its keys
\* and the spec of each key) as they were; and a successful call returns an
\* instance other than the builder, with a registry that is neither the
\* builder's dictionary nor shared with it.
C16_ReplaceUpdateDoNotMutate ==
    /\ []((last.op \in {"replace", "update"} /\ last.res.ok)
            => /\ last.made.instance # "self"
               /\ last.made.fields \notin {"self.fields"})
    /\ [][last'.op \in {"replace", "update"}
            => UNCHANGED <<template, parent_template, fields, default_field>>]_vars

\* update has returned a builder whose registry differs from that of the builder
\* it was called on: a field was reset to the default spec by a None.
C16_Witness ==
    /\ last.op = "update"
    /\ last.res.ok
    /\ "fields" \in DOMAIN last.kwargs
    /\ \E n \in DOMAIN fields :
          /\ n \in DOMAIN last.kwargs["fields"].v
          /\ last.kwargs["fields"].v[n] = None
          /\ last.res.val.fields[n] # fields[n]
    /\ last.made.instance = "new"


\* update(fields=F, ...) with a dictionary F has just returned.
Overlaying ==
    /\ last.op = "update"
    /\ "fields" \in DOMAIN last.kwargs
    /\ last.kwargs["fields"] # None

GivenFields == last.kwargs["fields"].v

\* The names F sets to None.
ResetNames == {n \in DOMAIN GivenFields : GivenFields[n] = None}

\* C17: update(fields=F) lays F over the registry.  In the builder it returns,
\* a placeholder of the template has the spec F gives it when that is not None,
\* the default spec when F sets it to None, and otherwise the spec it had in the
\* builder update was called on (the default spec when it had none, being new
\* in the template); a name that F sets to None and that is not in the template
\* is not in the returned registry and is not reported as an invalid field.
C17_UpdateOverlay ==
    Overlaying
        => /\ last.res.ok
              => /\ \A n \in Names(last.res.val.template) :
                       last.res.val.fields[n] =
                          IF n \in (DOMAIN GivenFields) \ ResetNames THEN GivenFields[n]
                          ELSE IF n \in ResetNames THEN last.res.val.default_field
                          ELSE IF n \in DOMAIN fields THEN fields[n]
                          ELSE last.res.val.default_field
                 /\ \A n \in ResetNames \ Names(last.res.val.template) :
                       n \notin DOMAIN last.res.val.fields
           /\ (~last.res.ok /\ last.res.msg = "Invalid fields")
                 => last.res.args.invalid \cap ResetNames = {}

\* update has returned a builder from fields that set a name outside the new
\* template to None and give another name a spec it did not have.
C17_Witness ==
    /\ Overlaying
    /\ last.res.ok
    /\ \E n \in ResetNames : n \in DOMAIN fields /\ n \notin Names(last.res.val.template)
    /\ \E m \in (DOMAIN GivenFields) \ ResetNames :
          /\ m \in DOMAIN fields
          /\ fields[m] # GivenFields[m]
          /\ last.res.val.fields[m] = GivenFields[m]

----------------------------------------------------------------------------
(* Properties of the coverage check of get_path *)

GettingPath == last.op = "get_path"

\* The placeholders that are not optional and have no supplied value, in the
\* order of the template, once per occurrence.
UnsuppliedRequired ==
    SelectIn(get_template_fields_names(template),
             {n \in Names(template) : n \notin DOMAIN last.kwargs /\ ~fields[n].is_optional})

MissingFieldsError == ~last.res.ok /\ last.res.exc = "ValueError" /\ last.res.msg = "Missing fields"

\* The supplied values with None for every optional placeholder left out.
FilledIn ==
    [n \in (DOMAIN last.kwargs) \cup {m \in Names(template) : fields[m].is_optional} |->
        IF n \in DOMAIN last.kwargs THEN last.kwargs[n] ELSE None]

----------------------------------------------------------------------------
(* Properties of the literal text of the template *)

\* The elements that match a character of literal text and nothing else; the
\* separator that follows an optional placeholder may also match nothing.
Literally(tpl, i) ==
    {Chr(tpl[i].v)} \cup
        (IF OptionalSeparators(tpl, fields)[i] # tpl[i] THEN {OptChr(tpl[i].v)} ELSE {})

\* The strings spelled by the literal text of the template around the texts
\* captured for its placeholders, taken in order.
RECURSIVE Spelled(_, _, _)
Spelled(tpl, i, texts) ==
    IF i > Len(tpl) THEN {<<>>}
    ELSE IF tpl[i].k = "fld"
    THEN {texts[1] \o rest : rest \in Spelled(tpl, i + 1, Tail(texts))}
    ELSE {<<tpl[i].v>> \o rest : rest \in Spelled(tpl, i + 1, texts)}
            \cup (IF OptChr(tpl[i].v) \in Literally(tpl, i)
                  THEN Spelled(tpl, i + 1, texts) ELSE {})

CapturedTexts == [k \in 1..Len(Captured.groups) |-> Captured.groups[k].text]

\* C19: in the pattern parse_file_path compiles, every character of the
\* template's literal text is escaped, so the literal text matches only itself:
\* an input that matches is spelled by the literal text around what the
\* placeholders captured.
C19_LiteralTextEscaped ==
    last.op = "parse_file_path"
        => /\ \A i \in 1..Len(template) :
                 template[i].k = "lit" => CompiledPattern[i] \in Literally(template, i)
           /\ Captured.matched => last.file_path \in Spelled(template, 1, CapturedTexts)

----------------------------------------------------------------------------
(* Properties of the deduplication of repeated fields *)

\* The repeated fields of the parsed template with the synthetic names given
\* to their occurrences.
Deduplicated == ParsePlan(ParsedTemplate, ParsedPatterns, last.order).dd

\* The synthetic names given to the occurrences of the field entry.name.
SyntheticNames(entry) == Range(entry.list)

\* The repeated fields a group name of the pattern is fused into.
FusedInto(group) ==
    {i \in 1..Len(Deduplicated) : group \in SyntheticNames(Deduplicated[i])}

\* C20: the k > 1 occurrences of a repeated field are rewritten to k synthetic
\* group names that are pairwise distinct and distinct from every other field
\* name of the template; the compiled pattern never defines a group name twice,
\* and every captured group maps back to exactly one original field name.
C20_SyntheticNamesDistinct ==
    Parsing
        => LET template_fields == get_template_fields_names(ParsedTemplate)
               groups == GroupNames(CompiledPattern)
           IN  /\ \A i \in 1..Len(Deduplicated) :
                     LET entry == Deduplicated[i]
                     IN  /\ Cardinality(SyntheticNames(entry)) = Count(template_fields, entry.name)
                         /\ SyntheticNames(entry) \cap Range(template_fields) = {}
                         /\ \A j \in 1..Len(Deduplicated) :
                               i # j => SyntheticNames(entry) \cap SyntheticNames(Deduplicated[j]) = {}
               /\ Compiles
               /\ \A k \in 1..Len(groups) :
                     IF Count(template_fields, template_fields[k]) = 1
                     THEN groups[k] = template_fields[k] /\ FusedInto(groups[k]) = {}
                     ELSE \A i \in 1..Len(Deduplicated) :
                             i \in FusedInto(groups[k]) <=> Deduplicated[i].name = template_fields[k]

----------------------------------------------------------------------------
(* Properties of the keys of get_parent_path *)

\* The fields of the parent template as get_parent_path has cut it.
TruncatedNames == Names(TruncatedTemplate)

\* The supplied keys that name no field of the cut parent template.
ForeignKeys == (DOMAIN last.kwargs) \ TruncatedNames

\* C21: get_parent_path never returns a path when a supplied key names no
\* field of the parent template as cut: it fails whether or not the template
\* was cut, also for a key that names a field of the file-name part only.
C21_ForeignKeyNeverReturnsPath ==
    (Parenting /\ ForeignKeys # {}) => ~last.res.ok

\* A key for a field of the file-name part alone has been refused with nothing
\* cut from the parent template.
C21_Witness ==
    /\ Parenting
    /\ ~Truncating
    /\ ForeignKeys # {}
    /\ ForeignKeys \subseteq Names(template) \ Range(ParentNames)
    /\ ~last.res.ok
    /\ last.res.msg = "Invalid fields"
    /\ last.res.args.invalid = ForeignKeys

----------------------------------------------------------------------------
(* Properties of the round trip from a path to fields and back *)

PathBijecting == last.op = "assert_path_bijection"

\* The strict parse has accepted the path.
Accepted == PathBijecting /\ last.parsed_fields.ok

\* C22 as claimed: for every path that parse_file_path accepts in strict mode,
\* get_path applied to the parsed fields succeeds and returns exactly the path.
C22_PathBijection ==
    Accepted => last.result_test_path = Ok(last.test_path)

\* The path is in normal form, holds no line break, and no separator of the
\* template is made optional in the pattern.
WellPosedPath ==
    /\ normpath(last.test_path) = last.test_path
    /\ \A i \in 1..Len(last.test_path) : last.test_path[i] # NL
    /\ ~ElidesSeparator

\* C22 as amended: for a path in normal form without a line break that
\* parse_file_path accepts in strict mode, on a builder whose pattern makes no
\* separator optional, get_path applied to the parsed fields returns exactly
\* the path, and assert_path_bijection passes.
C22_WellPosedPathBijection ==
    (Accepted /\ WellPosedPath)
        => /\ last.result_test_path = Ok(last.test_path)
           /\ last.res = Ok(None)

\* A path with an elided optional field has made the round trip.
C22_Witness ==
    /\ Accepted
    /\ WellPosedPath
    /\ \E n \in DOMAIN last.parsed_fields.val : last.parsed_fields.val[n] = None
    /\ Len(last.test_path) = MaxValueChars
    /\ last.res = Ok(None)

----------------------------------------------------------------------------
(* Properties of the rendering of None *)

\* The fields that are not optional and were given an explicit None.
NoneForRequired ==
    {n \in (DOMAIN last.kwargs) \cap (DOMAIN fields) :
        last.kwargs[n] = None /\ ~fields[n].is_optional}

\* C23: None is rendered as the empty string for optional fields only: when
\* get_path or get_parent_path is given an explicit None for a field that is
\* not optional, the call fails and returns no path, so no path holds that None
\* rendered as text.
C23_NoneOnlyForOptional ==
    (last.op \in {"get_path", "get_parent_path"} /\ NoneForRequired # {}) => ~last.res.ok

====
